---- MODULE Spec2Model ----
(***************************************************************************)
(* Model of the path filter of src/src/prompt_builder.py                   *)
(* (get_non_gitignore_files): the os.walk enumeration, the loading of the  *)
(* .gitignore lines and the per-file pattern loop.                         *)
(*                                                                         *)
(* Strings are sequences of one-character strings, so that strip,          *)
(* startswith, endswith, split and fnmatch are computed character by       *)
(* character as the Python code computes them.                             *)
(***************************************************************************)
EXTENDS Integers, Sequences, FiniteSets, TLC

(***************************************************************************)
(* Bounds of the model.                                                    *)
(***************************************************************************)
\* largest number of lines of the .gitignore file
MaxLines == 2
\* largest number of sub-directories os.walk visits below the root
MaxSubdirs == 2
\* largest number of tool invocations of one agent run
MaxCalls == 2

(***************************************************************************)
(* String literals of the file trees and ignore files explored.            *)
(***************************************************************************)
DotGit == <<".", "g", "i", "t">>
DotGitignore == <<".", "g", "i", "t", "i", "g", "n", "o", "r", "e">>
DotLock == <<".", "l", "o", "c", "k">>
CurDir == <<".">>
Sep == "/"

KeepLog == <<"k", "e", "e", "p", ".", "l", "o", "g">>
DebugLog == <<"d", "e", "b", "u", "g", ".", "l", "o", "g">>
YarnLock == <<"y", "a", "r", "n", ".", "l", "o", "c", "k">>
Build == <<"b", "u", "i", "l", "d">>
ConfigJson == <<"c", "o", "n", "f", "i", "g", ".", "j", "s", "o", "n">>
Head_ == <<"H", "E", "A", "D">>
Main_ == <<"m", "a", "i", "n">>
OutO == <<"o", "u", "t", ".", "o">>
CatalogTxt == <<"c", "a", "t", "a", "l", "o", "g", ".", "t", "x", "t">>
ALock == <<"a", ".", "l", "o", "c", "k">>
SrcConfigJson == <<"s", "r", "c", "/", "c", "o", "n", "f", "i", "g", ".", "j", "s", "o", "n">>
SrcCatalogTxt == <<"s", "r", "c", "/", "c", "a", "t", "a", "l", "o", "g", ".", "t", "x", "t">>

\* raw lines of a .gitignore file, each with its line terminator, as the
\* iteration over the open file yields them
LineStarLog == <<"*", ".", "l", "o", "g", "\n">>
LineNotKeepLog == <<"!", "k", "e", "e", "p", ".", "l", "o", "g", "\n">>
LineBuildDir == <<"b", "u", "i", "l", "d", "/", "\n">>
LineRootConfig == <<"/", "c", "o", "n", "f", "i", "g", ".", "j", "s", "o", "n", "\n">>
LineNotLock == <<"!", "*", ".", "l", "o", "c", "k", "\n">>
LineLog == <<"l", "o", "g", "\n">>
LineIndentedComment == <<" ", " ", "#", "x", "\n">>
LineComment == <<"#", " ", "c", "\n">>
LineBlank == <<"\n">>
LineSrcJson == <<"s", "r", "c", "/", "*", ".", "j", "s", "o", "n", "\n">>
LineRootJson == <<"/", "*", ".", "j", "s", "o", "n", "\n">>

\* the patterns those lines are meant to give
PatStarLog == <<"*", ".", "l", "o", "g">>
PatNotKeepLog == <<"!", "k", "e", "e", "p", ".", "l", "o", "g">>
PatBuildDir == <<"b", "u", "i", "l", "d", "/">>
PatRootConfig == <<"/", "c", "o", "n", "f", "i", "g", ".", "j", "s", "o", "n">>
PatNotLock == <<"!", "*", ".", "l", "o", "c", "k">>
PatLog == <<"l", "o", "g">>

LinePool ==
  { LineStarLog, LineNotKeepLog, LineBuildDir, LineRootConfig, LineNotLock,
    LineLog, LineIndentedComment, LineComment, LineBlank, LineSrcJson,
    LineRootJson }

(***************************************************************************)
(* Python string operations.                                               *)
(***************************************************************************)
Whitespace == {" ", "\t", "\n", "\r"}

\* str.startswith
StartsWith(s, p) == Len(s) >= Len(p) /\ SubSeq(s, 1, Len(p)) = p

\* str.endswith
EndsWith(s, p) == Len(s) >= Len(p) /\ SubSeq(s, Len(s) - Len(p) + 1, Len(s)) = p

\* c in s
Contains(s, c) == \E i \in 1..Len(s) : s[i] = c

\* str.strip: drop the leading and the trailing whitespace
Strip(s) ==
  LET keep == { i \in 1..Len(s) : s[i] \notin Whitespace }
  IN  IF keep = {} THEN <<>>
      ELSE SubSeq(s, CHOOSE i \in keep : \A j \in keep : i <= j,
                     CHOOSE i \in keep : \A j \in keep : i >= j)

\* str.split(os.path.sep): the components between separators
RECURSIVE SplitFrom(_, _, _)
SplitFrom(s, i, cur) ==
  IF i > Len(s) THEN <<cur>>
  ELSE IF s[i] = Sep THEN <<cur>> \o SplitFrom(s, i + 1, <<>>)
  ELSE SplitFrom(s, i + 1, Append(cur, s[i]))

Split(s) == SplitFrom(s, 1, <<>>)

\* os.path.join(root, file)
PathJoin(root, file) ==
  IF root # <<>> /\ root[Len(root)] = Sep THEN root \o file
  ELSE root \o <<Sep>> \o file

RECURSIVE JoinComponents(_)
JoinComponents(cs) ==
  IF cs = <<>> THEN <<>>
  ELSE IF Len(cs) = 1 THEN cs[1]
  ELSE cs[1] \o <<Sep>> \o JoinComponents(Tail(cs))

\* os.path.relpath(path, '.') of a path below the current directory: the
\* "." and empty components are dropped
RelPath(path) ==
  LET cs == SelectSeq(Split(path), LAMBDA c : c # <<>> /\ c # CurDir)
  IN  IF cs = <<>> THEN CurDir ELSE JoinComponents(cs)

\* fnmatch.fnmatch on a POSIX host (normcase is the identity): "*" matches
\* any run of characters, "/" included, "?" any one character, any other
\* character itself; the whole name must match.  No string explored
\* contains "[", so character classes do not arise.
RECURSIVE Fnmatch(_, _)
Fnmatch(name, pat) ==
  IF pat = <<>> THEN name = <<>>
  ELSE IF Head(pat) = "*"
    THEN Fnmatch(name, Tail(pat)) \/ (name # <<>> /\ Fnmatch(Tail(name), pat))
  ELSE IF name = <<>> THEN FALSE
  ELSE IF Head(pat) = "?" THEN Fnmatch(Tail(name), Tail(pat))
  ELSE Head(pat) = Head(name) /\ Fnmatch(Tail(name), Tail(pat))

(***************************************************************************)
(* The file tree, as os.walk('.') reports it: one entry per directory, top *)
(* down, with the directory's path and the names of its non-directory      *)
(* entries.  The directories under .git are reported like any other.       *)
(***************************************************************************)
RootListings ==
  { <<KeepLog, DebugLog, YarnLock>>,
    <<Build, ConfigJson, DotGit>> }

SubdirPool ==
  << [root |-> <<".", "/", ".", "g", "i", "t">>, files |-> <<Head_>>],
     [root |-> <<".", "/", ".", "g", "i", "t", "/", "r", "e", "f", "s">>, files |-> <<Main_>>],
     [root |-> <<".", "/", "b", "u", "i", "l", "d">>, files |-> <<OutO>>],
     [root |-> <<".", "/", "s", "r", "c">>, files |-> <<ConfigJson, CatalogTxt>>],
     [root |-> <<".", "/", "s", "r", "c", "/", ".", "g", "i", "t">>, files |-> <<Head_>>],
     [root |-> <<".", "/", "s", "u", "b">>, files |-> <<DotGit, ALock>>] >>

Parent(root) == LET cs == Split(root) IN JoinComponents(SubSeq(cs, 1, Len(cs) - 1))

BaseName(root) == LET cs == Split(root) IN cs[Len(cs)]

\* the entries of SubdirPool whose index is in S, in the pool's order
RECURSIVE PickFrom(_, _)
PickFrom(i, S) ==
  IF i > Len(SubdirPool) THEN <<>>
  ELSE (IF i \in S THEN <<SubdirPool[i]>> ELSE <<>>) \o PickFrom(i + 1, S)

\* a directory is reported after its parent, and no name is both a file and
\* a directory of the same parent
WellFormed(w) ==
  \A i \in 2..Len(w) :
    \E j \in 1..(i - 1) :
      /\ w[j].root = Parent(w[i].root)
      /\ \A k \in 1..Len(w[j].files) : w[j].files[k] # BaseName(w[i].root)

Walks ==
  { w \in { <<[root |-> CurDir, files |-> (IF g THEN <<DotGitignore>> ELSE <<>>) \o l]>>
              \o PickFrom(1, S) :
            g \in BOOLEAN, l \in RootListings,
            S \in { T \in SUBSET (1..Len(SubdirPool)) : Cardinality(T) <= MaxSubdirs } } :
      WellFormed(w) }

\* the contents a .gitignore file may have: up to MaxLines lines of LinePool
LineSeqs == UNION { [1..n -> LinePool] : n \in 0..MaxLines }

\* os.path.isdir(path): path names a directory of the tree
IsDir(t, path) == \E i \in 1..Len(t) : RelPath(t[i].root) = RelPath(path)

\* path names a non-directory entry of the tree
IsFile(t, path) ==
  \E i \in 1..Len(t) : \E k \in 1..Len(t[i].files) :
    RelPath(PathJoin(t[i].root, t[i].files[k])) = RelPath(path)

\* os.path.exists(path)
PathExists(t, path) == IsFile(t, path) \/ IsDir(t, path)

(***************************************************************************)
(* get_non_gitignore_files                                                 *)
(***************************************************************************)
VARIABLES
  tree,                 \* the file tree below the current directory
  pc,                   \* "walk", "filter" or "done"
  wi,                   \* position of the os.walk loop in tree
  all_files,            \* all_files
  gitignore_lines,      \* the lines read from .gitignore
  gitignore_patterns,   \* gitignore_patterns
  fi,                   \* position of the filter loop in all_files
  non_gitignore_files,  \* non_gitignore_files
  result                \* the returned list

\* the agent's tools (src/main.py) and the file writer (src/src/file_writer.py)
VARIABLES
  tpc,                  \* where the running tool invocation stands, or "idle"
  tool,                 \* the tool of the running or last invocation
  calls,                \* the number of tool invocations so far
  command,              \* the shell command of the invocation, in pieces
  confirm,              \* run_bash_command: the answer read by input(), if any
  spawned,              \* the shell subprocesses started so far, in order
  ret,                  \* the value the last invocation returned
  fs_files,             \* the files on disk: path -> content
  fs_dirs,              \* the directories on disk
  patch_path,           \* apply_patch_to_file: file_path
  patch,                \* apply_patch_to_file: patch
  original_content,     \* apply_patch_to_file: original_content, if it was read
  raw_output,           \* apply_patch_to_file: the patching model's answer, if any
  fs_files0,            \* the files on disk when the invocation began
  fs_dirs0              \* the directories on disk when the invocation began

filter_vars == <<tree, pc, wi, all_files, gitignore_lines, gitignore_patterns, fi,
                 non_gitignore_files, result>>

tool_vars == <<tpc, tool, calls, command, confirm, spawned, ret, fs_files, fs_dirs,
               patch_path, patch, original_content, raw_output, fs_files0,
               fs_dirs0>>

vars == <<tree, pc, wi, all_files, gitignore_lines, gitignore_patterns, fi,
          non_gitignore_files, result, tpc, tool, calls, command, confirm, spawned,
          ret,
          fs_files, fs_dirs, patch_path, patch, original_content, raw_output,
          fs_files0, fs_dirs0>>

\* a value that is not there: no answer, no content read, no model answer
None == [given |-> FALSE, text |-> <<>>]

\* a value that is there
Some(text) == [given |-> TRUE, text |-> text]

\* what a tool returns: one of its fixed messages, and the text it carries
Returned(msg, text) == [msg |-> msg, text |-> text]

\* no tool is running and none has run
ToolsIdle ==
  /\ tpc = "idle"
  /\ tool = "none"
  /\ calls = 0
  /\ command = <<>>
  /\ confirm = None
  /\ spawned = <<>>
  /\ ret = Returned("none", <<>>)
  /\ patch_path = <<>>
  /\ patch = <<>>
  /\ original_content = None
  /\ raw_output = None

Init ==
  /\ ToolsIdle
  /\ fs_files = <<>>
  /\ fs_dirs = {}
  /\ fs_files0 = <<>>
  /\ fs_dirs0 = {}
  /\ tree \in Walks
  /\ pc = "walk"
  /\ wi = 1
  /\ all_files = <<>>
  /\ gitignore_lines = <<>>
  /\ gitignore_patterns = <<>>
  /\ fi = 1
  /\ non_gitignore_files = <<>>
  /\ result = <<>>

\* RelPaths without the os.path.relpath call: the paths keep their "./"
RelPaths_NotRelative(entry) ==
  [k \in 1..Len(entry.files) |-> PathJoin(entry.root, entry.files[k])]

\* the relative paths of the files of one os.walk entry, in listing order
RelPaths(entry) ==
  [k \in 1..Len(entry.files) |-> RelPath(PathJoin(entry.root, entry.files[k]))]

\* InGitDir looking for .git at the top level only
InGitDir_TopLevelOnly(root) == Len(Split(root)) >= 2 /\ Split(root)[2] = DotGit

\* '.git' in root.split(os.path.sep)
InGitDir(root) == \E k \in 1..Len(Split(root)) : Split(root)[k] = DotGit

\* one iteration of the os.walk loop on a directory under .git: continue
SkipGitDir ==
  /\ pc = "walk"
  /\ wi <= Len(tree)
  /\ InGitDir(tree[wi].root)
  /\ wi' = wi + 1
  /\ UNCHANGED <<tree, pc, all_files, gitignore_lines, gitignore_patterns, fi,
                 non_gitignore_files, result>>
  /\ UNCHANGED tool_vars

\* one iteration of the os.walk loop on any other directory
WalkDir ==
  /\ pc = "walk"
  /\ wi <= Len(tree)
  /\ ~InGitDir(tree[wi].root)
  /\ all_files' = all_files \o RelPaths(tree[wi])
  /\ wi' = wi + 1
  /\ UNCHANGED <<tree, pc, gitignore_lines, gitignore_patterns, fi,
                 non_gitignore_files, result>>
  /\ UNCHANGED tool_vars

\* WithoutLockFiles without the suffix test
WithoutLockFiles_KeepAll(files) == files

\* [f for f in all_files if not f.endswith('.lock')]
WithoutLockFiles(files) == SelectSeq(files, LAMBDA f : ~EndsWith(f, DotLock))

\* no .gitignore: return the files that are not lock files
ReturnNoGitignore ==
  /\ pc = "walk"
  /\ wi > Len(tree)
  /\ ~PathExists(tree, DotGitignore)
  /\ result' = WithoutLockFiles(all_files)
  /\ pc' = "done"
  /\ UNCHANGED <<tree, wi, all_files, gitignore_lines, gitignore_patterns, fi,
                 non_gitignore_files>>
  /\ UNCHANGED tool_vars

\* the condition of the list comprehension that reads .gitignore
KeepLine(line) == Strip(line) # <<>> /\ ~StartsWith(line, <<"#">>)

\* [line.strip() for line in gitignore_file if ...]
LoadPatterns(lines) ==
  LET kept == SelectSeq(lines, KeepLine)
  IN  [k \in 1..Len(kept) |-> Strip(kept[k])]

\* read .gitignore
ReadGitignore ==
  /\ pc = "walk"
  /\ wi > Len(tree)
  /\ PathExists(tree, DotGitignore)
  /\ \E lines \in LineSeqs :
       /\ gitignore_lines' = lines
       /\ gitignore_patterns' = LoadPatterns(lines)
  /\ pc' = "filter"
  /\ UNCHANGED <<tree, wi, all_files, fi, non_gitignore_files, result>>
  /\ UNCHANGED tool_vars

\* pattern.startswith('!')
IsNegation(pattern) == StartsWith(pattern, <<"!">>)

\* the pattern after the "!" is removed
StripNegation(pattern) == IF IsNegation(pattern) THEN Tail(pattern) ELSE pattern

\* pattern.endswith('/'), after the "!" is removed
IsDirOnly(pattern) == EndsWith(StripNegation(pattern), <<Sep>>)

\* the pattern after the "!" and the trailing "/" are removed
StripDirOnly(pattern) ==
  LET p == StripNegation(pattern)
  IN  IF IsDirOnly(pattern) THEN SubSeq(p, 1, Len(p) - 1) ELSE p

\* Skipped without the os.path.isdir test
Skipped_Never(t, file_path, pattern) == FALSE

\* a directory-only pattern is passed over for a path that is no directory
Skipped(t, file_path, pattern) == IsDirOnly(pattern) /\ ~IsDir(t, file_path)

\* Match with the leading "/" dropped and the rest matched anywhere
Match_AnchoredAnywhere(file_path, pattern) ==
  LET p == StripDirOnly(pattern)
      q == IF StartsWith(p, <<Sep>>) THEN Tail(p) ELSE p
  IN  IF Contains(q, Sep) THEN Fnmatch(file_path, q)
      ELSE Fnmatch(file_path, <<"*">> \o q \o <<"*">>)

\* Match with a pattern without "/" matched against the whole path
Match_NoSlashWhole(file_path, pattern) ==
  LET p == StripDirOnly(pattern)
  IN  IF StartsWith(p, <<Sep>>) THEN Fnmatch(file_path, Tail(p))
      ELSE Fnmatch(file_path, p)

\* the conversion of the pattern to an fnmatch pattern, and the match
Match(file_path, pattern) ==
  LET p == StripDirOnly(pattern)
  IN  IF StartsWith(p, <<Sep>>) THEN Fnmatch(file_path, Tail(p))
      ELSE IF Contains(p, Sep) THEN Fnmatch(file_path, p)
      ELSE Fnmatch(file_path, <<"*">> \o p \o <<"*">>)

\* the pattern loop from pattern i on: the value of should_ignore at its end
RECURSIVE ShouldIgnoreFrom(_, _, _, _)
ShouldIgnoreFrom(t, file_path, patterns, i) ==
  IF i > Len(patterns) THEN FALSE
  ELSE IF Skipped(t, file_path, patterns[i])
    THEN ShouldIgnoreFrom(t, file_path, patterns, i + 1)
  ELSE IF Match(file_path, patterns[i]) /\ ~IsNegation(patterns[i]) THEN TRUE
  ELSE IF Match(file_path, patterns[i]) /\ IsNegation(patterns[i]) THEN FALSE
  ELSE ShouldIgnoreFrom(t, file_path, patterns, i + 1)

ShouldIgnore(t, file_path, patterns) == ShouldIgnoreFrom(t, file_path, patterns, 1)

\* one iteration of the filter loop on a lock file: continue
SkipLockFile ==
  /\ pc = "filter"
  /\ fi <= Len(all_files)
  /\ EndsWith(all_files[fi], DotLock)
  /\ fi' = fi + 1
  /\ UNCHANGED <<tree, pc, wi, all_files, gitignore_lines, gitignore_patterns,
                 non_gitignore_files, result>>
  /\ UNCHANGED tool_vars

\* one iteration of the filter loop on any other file
FilterFile ==
  /\ pc = "filter"
  /\ fi <= Len(all_files)
  /\ ~EndsWith(all_files[fi], DotLock)
  /\ non_gitignore_files' =
       IF ShouldIgnore(tree, all_files[fi], gitignore_patterns)
       THEN non_gitignore_files
       ELSE Append(non_gitignore_files, all_files[fi])
  /\ fi' = fi + 1
  /\ UNCHANGED <<tree, pc, wi, all_files, gitignore_lines, gitignore_patterns,
                 result>>
  /\ UNCHANGED tool_vars

\* return non_gitignore_files
Return ==
  /\ pc = "filter"
  /\ fi > Len(all_files)
  /\ result' = non_gitignore_files
  /\ pc' = "done"
  /\ UNCHANGED <<tree, wi, all_files, gitignore_lines, gitignore_patterns, fi,
                 non_gitignore_files>>
  /\ UNCHANGED tool_vars

Next ==
  \/ SkipGitDir
  \/ WalkDir
  \/ ReturnNoGitignore
  \/ ReadGitignore
  \/ SkipLockFile
  \/ FilterFile
  \/ Return

Spec == Init /\ [][Next]_vars

TypeOK ==
  /\ pc \in {"walk", "filter", "done"}
  /\ wi \in 1..(Len(tree) + 1)
  /\ fi \in 1..(Len(all_files) + 1)

(***************************************************************************)
(* Notions the properties are stated with.                                 *)
(***************************************************************************)
\* f is one of the paths of the sequence files
InSeq(files, f) == \E k \in 1..Len(files) : files[k] = f

\* the pattern matches the path, as the pattern loop sees it
Matches(t, file_path, pattern) ==
  ~Skipped(t, file_path, pattern) /\ Match(file_path, pattern)

\* the verdict of the last pattern that matches the path: excluded iff there
\* is one and it is not a negation
LastMatchExcluded(t, file_path, patterns) ==
  LET M == { i \in 1..Len(patterns) : Matches(t, file_path, patterns[i]) }
  IN  M # {} /\ ~IsNegation(patterns[CHOOSE i \in M : \A j \in M : j <= i])

\* the call has returned from the branch that read .gitignore
DoneWithGitignore == pc = "done" /\ PathExists(tree, DotGitignore)

\* C1: the verdict on every file that is no lock file is the verdict of the
\* last pattern that matches it, and a file no pattern matches is included.
C1_LastMatchWins ==
  DoneWithGitignore =>
    \A k \in 1..Len(all_files) :
      ~EndsWith(all_files[k], DotLock) =>
        (InSeq(result, all_files[k])
           <=> ~LastMatchExcluded(tree, all_files[k], gitignore_patterns))

\* C2: with the patterns ["*.log", "!keep.log"], keep.log is included and
\* debug.log is excluded.
C2_NegationOverrides ==
  (/\ DoneWithGitignore
   /\ gitignore_patterns = <<PatStarLog, PatNotKeepLog>>
   /\ InSeq(all_files, KeepLog)
   /\ InSeq(all_files, DebugLog))
    => (InSeq(result, KeepLog) /\ ~InSeq(result, DebugLog))

\* C3: no path ending in ".lock" is ever among the files kept or returned,
\* whatever .gitignore holds and whether or not it exists.
C3_LockFilesNeverReturned ==
  /\ \A k \in 1..Len(result) : ~EndsWith(result[k], DotLock)
  /\ \A k \in 1..Len(non_gitignore_files) : ~EndsWith(non_gitignore_files[k], DotLock)

\* a lock file was enumerated and the pattern loop alone would keep it: a
\* negation matching it is among the patterns and no pattern excludes it
C3_Witness ==
  /\ DoneWithGitignore
  /\ InSeq(gitignore_patterns, PatNotLock)
  /\ \E k \in 1..Len(all_files) :
       /\ EndsWith(all_files[k], DotLock)
       /\ Match(all_files[k], PatNotLock)
       /\ ~ShouldIgnore(tree, all_files[k], gitignore_patterns)
       /\ ~InSeq(result, all_files[k])

\* C4, as claimed: no enumerated path has ".git" as one of its components,
\* the last one (the file's own name) included.
C4_NoGitComponent ==
  /\ pc = "walk" => \A k \in 1..Len(all_files) : ~InSeq(Split(all_files[k]), DotGit)
  /\ pc = "done" => \A k \in 1..Len(result) : ~InSeq(Split(result[k]), DotGit)

\* the directory components of a relative path: all but the last
DirComponents(path) == LET cs == Split(path) IN SubSeq(cs, 1, Len(cs) - 1)

\* C4, amended: no path the enumeration yields, and none that is returned,
\* has ".git" as one of its directory components, at any depth.
C4_NoGitDirComponent ==
  /\ pc = "walk" =>
       \A k \in 1..Len(all_files) : ~InSeq(DirComponents(all_files[k]), DotGit)
  /\ pc = "done" =>
       \A k \in 1..Len(result) : ~InSeq(DirComponents(result[k]), DotGit)

\* the walk is over a tree that holds a file in a .git directory below the
\* top level, it was not enumerated, and other files were
C4_Witness ==
  /\ pc = "walk"
  /\ wi > Len(tree)
  /\ all_files # <<>>
  /\ \E j \in 1..Len(tree) :
       /\ Len(Split(tree[j].root)) > 2
       /\ BaseName(tree[j].root) = DotGit
       /\ tree[j].files # <<>>
       /\ ~InSeq(all_files, RelPath(PathJoin(tree[j].root, tree[j].files[1])))

\* C5: when every pattern is directory-only (as with the one pattern
\* "build/"), no candidate is excluded by them: every enumerated file that
\* is no lock file is returned, a regular file named build among them.
C5_DirOnlySkipsFiles ==
  (/\ DoneWithGitignore
   /\ gitignore_patterns # <<>>
   /\ \A i \in 1..Len(gitignore_patterns) : IsDirOnly(gitignore_patterns[i]))
    => \A k \in 1..Len(all_files) :
         ~EndsWith(all_files[k], DotLock) => InSeq(result, all_files[k])

\* the one pattern is "build/", build is a regular file and it is returned
C5_Witness ==
  /\ DoneWithGitignore
  /\ gitignore_patterns = <<PatBuildDir>>
  /\ IsFile(tree, Build)
  /\ ~IsDir(tree, Build)
  /\ InSeq(result, Build)

\* C6: with the one pattern "build/", no returned path lies under the
\* root-level directory build.
C6_BuildDirExcluded ==
  (DoneWithGitignore /\ gitignore_patterns = <<PatBuildDir>>)
    => \A k \in 1..Len(result) : ~StartsWith(result[k], PatBuildDir)

\* C7: with the one pattern "/config.json", config.json of the root is not
\* returned and src/config.json, when the tree has it, is.
C7_Anchoring ==
  (DoneWithGitignore /\ gitignore_patterns = <<PatRootConfig>>)
    => /\ ~InSeq(result, ConfigJson)
       /\ IsFile(tree, SrcConfigJson) => InSeq(result, SrcConfigJson)

\* the tree has both files; the root one was dropped, the other returned
C7_Witness ==
  /\ DoneWithGitignore
  /\ gitignore_patterns = <<PatRootConfig>>
  /\ InSeq(all_files, ConfigJson)
  /\ InSeq(all_files, SrcConfigJson)
  /\ ~InSeq(result, ConfigJson)
  /\ InSeq(result, SrcConfigJson)

\* every file of the tree, in the order os.walk reports them
RECURSIVE TreeFilesFrom(_, _)
TreeFilesFrom(t, i) ==
  IF i > Len(t) THEN <<>>
  ELSE [k \in 1..Len(t[i].files) |-> JoinComponents(Tail(Split(t[i].root)) \o <<t[i].files[k]>>)]
         \o TreeFilesFrom(t, i + 1)

\* the files that are not inside a .git directory and are no lock files
ExpectedWithoutGitignore(t) ==
  SelectSeq(TreeFilesFrom(t, 1),
            LAMBDA f : ~InSeq(DirComponents(f), DotGit) /\ ~EndsWith(f, DotLock))

\* C8: without a .gitignore the result is exactly the regular files of the
\* tree that are not inside a .git directory, minus those ending in
\* ".lock", in enumeration order.
C8_NoGitignore ==
  (pc = "done" /\ ~PathExists(tree, DotGitignore))
    => result = ExpectedWithoutGitignore(tree)

\* no .gitignore; the tree has a .git directory, a lock file and a regular
\* file named .git, which is returned
C8_Witness ==
  /\ pc = "done"
  /\ ~PathExists(tree, DotGitignore)
  /\ \E i \in 1..Len(tree) : InGitDir(tree[i].root) /\ tree[i].files # <<>>
  /\ \E k \in 1..Len(all_files) : EndsWith(all_files[k], DotLock)
  /\ \E k \in 1..Len(result) : BaseName(result[k]) = DotGit
  /\ Len(result) < Len(all_files)

\* the patterns the claim expects of the lines: the trimmed lines whose
\* trimmed text is non-empty and does not start with "#"
ExpectedPatterns(lines) ==
  LET kept == SelectSeq(lines, LAMBDA l : Strip(l) # <<>> /\ ~StartsWith(Strip(l), <<"#">>))
  IN  [k \in 1..Len(kept) |-> Strip(kept[k])]

\* C9: the loaded patterns are, in file order, the trimmed lines whose
\* trimmed text is non-empty and does not start with "#".
C9_LoadedPatterns ==
  pc \in {"filter", "done"} => gitignore_patterns = ExpectedPatterns(gitignore_lines)

\* some substring of the path, anywhere in it, glob-matches the pattern
MatchesSubstring(file_path, p) ==
  \E a \in 1..(Len(file_path) + 1) : \E b \in (a - 1)..Len(file_path) :
    Fnmatch(SubSeq(file_path, a, b), p)

\* C10: a pattern without "/" (the leading "!" apart) matches a path exactly
\* when it glob-matches some substring of the path.
C10_NoSlashMatchesAnywhere ==
  (pc = "filter" /\ fi <= Len(all_files)) =>
    \A i \in 1..Len(gitignore_patterns) :
      ~Contains(StripNegation(gitignore_patterns[i]), Sep) =>
        (Match(all_files[fi], gitignore_patterns[i])
           <=> MatchesSubstring(all_files[fi], StripNegation(gitignore_patterns[i])))

\* the pattern "log" is applied to src/catalog.txt and matches it, inside
\* the file name and behind a directory separator
C10_Witness ==
  /\ pc = "filter"
  /\ fi <= Len(all_files)
  /\ all_files[fi] = SrcCatalogTxt
  /\ InSeq(gitignore_patterns, PatLog)
  /\ Match(SrcCatalogTxt, PatLog)
  /\ ShouldIgnore(tree, SrcCatalogTxt, <<PatLog>>)

\* C13: a pattern that starts with "/" matches no file located in a
\* sub-directory, wildcards or not.
C13_AnchoredOnlyRoot ==
  (pc = "filter" /\ fi <= Len(all_files)) =>
    \A i \in 1..Len(gitignore_patterns) :
      (/\ StartsWith(StripDirOnly(gitignore_patterns[i]), <<Sep>>)
       /\ Contains(all_files[fi], Sep))
        => ~Matches(tree, all_files[fi], gitignore_patterns[i])

(***************************************************************************)
(* The agent's tools (src/main.py).  The agent framework invokes one tool  *)
(* at a time, any tool with any arguments, and waits for its result.  A    *)
(* tool invocation is one action per stretch between two awaits.           *)
(***************************************************************************)
PathA == <<"a", ".", "p", "y">>
PathB == <<"p", "k", "g", "/", "b", ".", "p", "y">>
Pkg == <<"p", "k", "g">>
Paths == {PathA, PathB}

\* what the human may type at a prompt
Answers ==
  { <<"y">>, <<" ", "Y", " ">>, <<"n">>, <<>>, <<"y", "e", "s">> }

\* the shell commands the agent may ask for
Commands == {"pytest"}

\* the patterns and directories the agent may grep for
GrepPatterns == {"TODO"}
GrepDirs == {CurDir, Pkg, PathA}

DeniedMessage == "Command execution denied by user."

\* str.lower, on the letters
LowerChar(c) ==
  CASE c = "A" -> "a" [] c = "B" -> "b" [] c = "C" -> "c" [] c = "D" -> "d"
    [] c = "E" -> "e" [] c = "F" -> "f" [] c = "G" -> "g" [] c = "H" -> "h"
    [] c = "I" -> "i" [] c = "J" -> "j" [] c = "K" -> "k" [] c = "L" -> "l"
    [] c = "M" -> "m" [] c = "N" -> "n" [] c = "O" -> "o" [] c = "P" -> "p"
    [] c = "Q" -> "q" [] c = "R" -> "r" [] c = "S" -> "s" [] c = "T" -> "t"
    [] c = "U" -> "u" [] c = "V" -> "v" [] c = "W" -> "w" [] c = "X" -> "x"
    [] c = "Y" -> "y" [] c = "Z" -> "z" [] OTHER -> c

Lower(s) == [i \in 1..Len(s) |-> LowerChar(s[i])]

\* the filter is not part of an agent run
FilterIdle ==
  /\ tree = <<>>
  /\ pc = "done"
  /\ wi = 1
  /\ all_files = <<>>
  /\ gitignore_lines = <<>>
  /\ gitignore_patterns = <<>>
  /\ fi = 1
  /\ non_gitignore_files = <<>>
  /\ result = <<>>

\* the disks an agent run may start on: a.py absent, empty or with content,
\* the directory pkg absent or there, and pkg/b.py absent or with content
InitialContents == { <<>>, <<"a", "\n">> }

InitialDisks ==
  { [f |-> f, d |-> d] :
      f \in UNION { [S -> InitialContents] : S \in SUBSET Paths },
      d \in { {CurDir}, {CurDir, Pkg} } }

ToolInit ==
  /\ ToolsIdle
  /\ FilterIdle
  /\ \E disk \in { x \in InitialDisks : PathB \in DOMAIN x.f => Pkg \in x.d } :
       /\ fs_files = disk.f
       /\ fs_dirs = disk.d
       /\ fs_files0 = disk.f
       /\ fs_dirs0 = disk.d

\* a tool is invoked: the invocation's own variables start afresh
Invoke(name) ==
  /\ tpc = "idle"
  /\ calls < MaxCalls
  /\ tool' = name
  /\ calls' = calls + 1
  /\ fs_files0' = fs_files
  /\ fs_dirs0' = fs_dirs

\* the invocation returns value
ReturnValue(value) == tpc' = "idle" /\ ret' = value

\* a record of a shell subprocess started by the running invocation
Subprocess == [call |-> calls, tool |-> tool, command |-> command, confirm |-> confirm]

\* IsDenied taking every answer that begins with "y" for a yes
IsDenied_Prefix(answer) == ~StartsWith(Lower(Strip(answer)), <<"y">>)

\* confirm != 'y', for confirm = input(...).strip().lower()
IsDenied(answer) == Lower(Strip(answer)) # <<"y">>

patch_vars == <<patch_path, patch, original_content, raw_output>>

\* run_bash_command: the human's answer is not "y": the command is refused
RunBashDenied ==
  /\ Invoke("run_bash_command")
  /\ \E c \in Commands, answer \in Answers :
       /\ IsDenied(answer)
       /\ command' = <<c>>
       /\ confirm' = Some(answer)
  /\ ReturnValue(Returned(DeniedMessage, <<>>))
  /\ UNCHANGED <<spawned, fs_files, fs_dirs, patch_vars, filter_vars>>

\* run_bash_command: input() raises (the input is closed)
RunBashInputFails ==
  /\ Invoke("run_bash_command")
  /\ \E c \in Commands : command' = <<c>>
  /\ confirm' = None
  /\ ReturnValue(Returned("Error executing command", <<>>))
  /\ UNCHANGED <<spawned, fs_files, fs_dirs, patch_vars, filter_vars>>

\* run_bash_command: the human's answer is "y": on to the subprocess
RunBashConfirmed ==
  /\ Invoke("run_bash_command")
  /\ \E c \in Commands, answer \in Answers :
       /\ ~IsDenied(answer)
       /\ command' = <<c>>
       /\ confirm' = Some(answer)
  /\ tpc' = "bash_spawn"
  /\ UNCHANGED <<spawned, ret, fs_files, fs_dirs, patch_vars, filter_vars>>

\* run_bash_command: asyncio.create_subprocess_shell starts the shell
RunBashSpawn ==
  /\ tpc = "bash_spawn"
  /\ spawned' = Append(spawned, Subprocess)
  /\ tpc' = "bash_wait"
  /\ UNCHANGED <<tool, calls, command, confirm, ret, fs_files, fs_dirs,
                 fs_files0, fs_dirs0, patch_vars, filter_vars>>

\* run_bash_command: asyncio.create_subprocess_shell raises
RunBashSpawnFails ==
  /\ tpc = "bash_spawn"
  /\ ReturnValue(Returned("Error executing command", <<>>))
  /\ UNCHANGED <<tool, calls, command, confirm, spawned, fs_files, fs_dirs,
                 fs_files0, fs_dirs0, patch_vars, filter_vars>>

\* run_bash_command: the subprocess ends and its output is returned
RunBashFinish ==
  /\ tpc = "bash_wait"
  /\ ReturnValue(Returned("Command output", <<>>))
  /\ UNCHANGED <<tool, calls, command, confirm, spawned, fs_files, fs_dirs,
                 fs_files0, fs_dirs0, patch_vars, filter_vars>>

\* read_file: the content of the file, or the not-found message
ReadFile ==
  /\ Invoke("read_file")
  /\ command' = <<>>
  /\ confirm' = None
  /\ \E path \in Paths :
       ReturnValue(IF path \in DOMAIN fs_files
                   THEN Returned("File content", fs_files[path])
                   ELSE Returned("Error: File not found", <<>>))
  /\ UNCHANGED <<spawned, fs_files, fs_dirs, patch_vars, filter_vars>>

\* grep: the directory argument is no directory
GrepNotDir ==
  /\ Invoke("grep")
  /\ command' = <<>>
  /\ confirm' = None
  /\ \E directory \in GrepDirs : directory \notin fs_dirs
  /\ ReturnValue(Returned("Error: not a valid directory", <<>>))
  /\ UNCHANGED <<spawned, fs_files, fs_dirs, patch_vars, filter_vars>>

\* grep: the grep command line is built, on to the subprocess
GrepStart ==
  /\ Invoke("grep")
  /\ confirm' = None
  /\ \E pattern \in GrepPatterns, directory \in GrepDirs :
       /\ directory \in fs_dirs
       /\ command' = <<"grep -r -n -I", pattern>> \o directory
  /\ tpc' = "grep_spawn"
  /\ UNCHANGED <<spawned, ret, fs_files, fs_dirs, patch_vars, filter_vars>>

\* grep: asyncio.create_subprocess_shell starts the shell
GrepSpawn ==
  /\ tpc = "grep_spawn"
  /\ spawned' = Append(spawned, Subprocess)
  /\ tpc' = "grep_wait"
  /\ UNCHANGED <<tool, calls, command, confirm, ret, fs_files, fs_dirs,
                 fs_files0, fs_dirs0, patch_vars, filter_vars>>

\* grep: asyncio.create_subprocess_shell raises
GrepSpawnFails ==
  /\ tpc = "grep_spawn"
  /\ ReturnValue(Returned("Error running grep", <<>>))
  /\ UNCHANGED <<tool, calls, command, confirm, spawned, fs_files, fs_dirs,
                 fs_files0, fs_dirs0, patch_vars, filter_vars>>

\* grep: the subprocess ends and its output is returned
GrepFinish ==
  /\ tpc = "grep_wait"
  /\ ReturnValue(Returned("Grep output", <<>>))
  /\ UNCHANGED <<tool, calls, command, confirm, spawned, fs_files, fs_dirs,
                 fs_files0, fs_dirs0, patch_vars, filter_vars>>

\* ask_human_for_help: the human's answer is returned as typed
AskHuman ==
  /\ Invoke("ask_human_for_help")
  /\ command' = <<>>
  /\ confirm' = None
  /\ \E response \in Answers : ReturnValue(Returned("Human response", response))
  /\ UNCHANGED <<spawned, fs_files, fs_dirs, patch_vars, filter_vars>>

\* ask_human_for_help: input() raises
AskHumanFails ==
  /\ Invoke("ask_human_for_help")
  /\ command' = <<>>
  /\ confirm' = None
  /\ ReturnValue(Returned("Error obtaining user input", <<>>))
  /\ UNCHANGED <<spawned, fs_files, fs_dirs, patch_vars, filter_vars>>

(***************************************************************************)
(* apply_patch_to_file (src/src/file_writer.py), which the tool of the     *)
(* same name calls.                                                        *)
(***************************************************************************)
\* the new_content the agent may pass
NewContents == { <<"b">>, <<" ", "b", "\n">> }

\* what the patching model may answer
LlmPlain == <<"b">>
LlmBlock == <<"<", "c", "o", "d", "e", ">", "b", "<", "/", "c", "o", "d", "e", ">">>
LlmBlockPadded ==
  <<"o", "k", " ", "<", "C", "O", "D", "E", ">", "\n", "c", "\n",
    "<", "/", "C", "o", "d", "e", ">", " ", "d", "o", "n", "e">>
LlmUnclosed == <<"<", "c", "o", "d", "e", ">", "b">>
LlmOutputs == {LlmPlain, LlmBlock, LlmBlockPadded, LlmUnclosed}

OpenTag == <<"<", "c", "o", "d", "e", ">">>
CloseTag == <<"<", "/", "c", "o", "d", "e", ">">>

\* the tag stands at position i of s, in any case (re.IGNORECASE)
TagAt(s, i, tag) ==
  i + Len(tag) - 1 <= Len(s) /\ Lower(SubSeq(s, i, i + Len(tag) - 1)) = tag

\* the places where re.search(r'<code>(.*?)</code>', s, re.DOTALL) can match:
\* an opening tag at i and a closing tag at j behind it
CodeMatches(s) ==
  { m \in (1..Len(s)) \X (1..Len(s)) :
      TagAt(s, m[1], OpenTag) /\ TagAt(s, m[2], CloseTag) /\ m[2] >= m[1] + Len(OpenTag) }

\* match is not None
HasCodeBlock(s) == CodeMatches(s) # {}

\* match.group(1): the leftmost opening tag, and the nearest closing tag
CodeBlock(s) ==
  LET M == CodeMatches(s)
      i == CHOOSE i \in {m[1] : m \in M} : \A k \in {m[1] : m \in M} : i <= k
      J == { m[2] : m \in {n \in M : n[1] = i} }
      j == CHOOSE j \in J : \A k \in J : j <= k
  IN  SubSeq(s, i + Len(OpenTag), j - 1)

\* the directories file_path.parent.mkdir(parents=True, exist_ok=True) makes
\* sure of: the parent and its parents
PathParents(path) ==
  LET cs == Split(path)
  IN  {CurDir} \cup { JoinComponents(SubSeq(cs, 1, k)) : k \in 1..(Len(cs) - 1) }

\* the disk after file_path.write_text(text)
Written(path, text) ==
  [q \in (DOMAIN fs_files) \cup {path} |-> IF q = path THEN text ELSE fs_files[q]]

\* the file is missing or empty: the patch itself is written to it
ApplyPatchNew ==
  /\ Invoke("apply_patch_to_file")
  /\ command' = <<>>
  /\ confirm' = None
  /\ \E path \in Paths, p \in NewContents :
       /\ (IF path \in DOMAIN fs_files THEN fs_files[path] = <<>> ELSE TRUE)
       /\ patch_path' = path
       /\ patch' = p
       /\ original_content' = IF path \in DOMAIN fs_files THEN Some(fs_files[path]) ELSE None
       /\ fs_dirs' = fs_dirs \cup PathParents(path)
       /\ fs_files' = Written(path, p)
  /\ raw_output' = None
  /\ ReturnValue(Returned("None", <<>>))
  /\ UNCHANGED <<spawned, filter_vars>>

\* the file has content: the content and the patch go to the patching model
ApplyPatchExisting ==
  /\ Invoke("apply_patch_to_file")
  /\ command' = <<>>
  /\ confirm' = None
  /\ \E path \in Paths, p \in NewContents :
       /\ path \in DOMAIN fs_files
       /\ fs_files[path] # <<>>
       /\ patch_path' = path
       /\ patch' = p
       /\ original_content' = Some(fs_files[path])
  /\ raw_output' = None
  /\ tpc' = "patch_llm"
  /\ UNCHANGED <<spawned, ret, fs_files, fs_dirs, filter_vars>>

\* the call of the patching model raises: return
PatchLlmRaises ==
  /\ tpc = "patch_llm"
  /\ ReturnValue(Returned("None", <<>>))
  /\ UNCHANGED <<tool, calls, command, confirm, spawned, fs_files, fs_dirs,
                 fs_files0, fs_dirs0, patch_vars, filter_vars>>

\* PatchNoCodeBlock falling back on the whole answer
PatchNoCodeBlock_WritesAnswer ==
  /\ tpc = "patch_llm"
  /\ \E out \in LlmOutputs :
       /\ ~HasCodeBlock(out)
       /\ raw_output' = Some(out)
       /\ fs_dirs' = fs_dirs \cup PathParents(patch_path)
       /\ fs_files' = Written(patch_path, Strip(out))
  /\ ReturnValue(Returned("None", <<>>))
  /\ UNCHANGED <<tool, calls, command, confirm, spawned, fs_files0, fs_dirs0,
                 patch_path, patch, original_content, filter_vars>>

\* the model's answer has no <code> block: return
PatchNoCodeBlock ==
  /\ tpc = "patch_llm"
  /\ \E out \in LlmOutputs :
       /\ ~HasCodeBlock(out)
       /\ raw_output' = Some(out)
  /\ ReturnValue(Returned("None", <<>>))
  /\ UNCHANGED <<tool, calls, command, confirm, spawned, fs_files, fs_dirs,
                 fs_files0, fs_dirs0, patch_path, patch, original_content,
                 filter_vars>>

\* the model's answer has a <code> block: its trimmed content is written
PatchWrite ==
  /\ tpc = "patch_llm"
  /\ \E out \in LlmOutputs :
       /\ HasCodeBlock(out)
       /\ raw_output' = Some(out)
       /\ fs_dirs' = fs_dirs \cup PathParents(patch_path)
       /\ fs_files' = Written(patch_path, Strip(CodeBlock(out)))
  /\ ReturnValue(Returned("None", <<>>))
  /\ UNCHANGED <<tool, calls, command, confirm, spawned, fs_files0, fs_dirs0,
                 patch_path, patch, original_content, filter_vars>>

ToolNext ==
  \/ RunBashDenied
  \/ RunBashInputFails
  \/ RunBashConfirmed
  \/ RunBashSpawn
  \/ RunBashSpawnFails
  \/ RunBashFinish
  \/ ReadFile
  \/ GrepNotDir
  \/ GrepStart
  \/ GrepSpawn
  \/ GrepSpawnFails
  \/ GrepFinish
  \/ ApplyPatchNew
  \/ ApplyPatchExisting
  \/ PatchLlmRaises
  \/ PatchNoCodeBlock
  \/ PatchWrite
  \/ AskHuman
  \/ AskHumanFails

ToolSpec == ToolInit /\ [][ToolNext]_vars

ToolTypeOK ==
  /\ tpc \in {"idle", "bash_spawn", "bash_wait", "grep_spawn", "grep_wait", "patch_llm"}
  /\ calls \in 0..MaxCalls
  /\ Len(spawned) <= calls
  /\ \A q \in DOMAIN fs_files : PathParents(q) \subseteq fs_dirs

(***************************************************************************)
(* Properties of the tools.                                                *)
(***************************************************************************)
\* the human answered "y": a single y, in either case, among whitespace only
AnsweredYes(answer) ==
  \E i \in 1..Len(answer) :
    /\ answer[i] \in {"y", "Y"}
    /\ \A j \in (1..Len(answer)) \ {i} : answer[j] \in {" ", "\t", "\n", "\r"}

\* the subprocess was started after a prompt that the human answered "y"
StartedAfterYes(subprocess) ==
  subprocess.confirm.given /\ AnsweredYes(subprocess.confirm.text)

\* the running or last invocation has started a subprocess
StartedHere == \E k \in 1..Len(spawned) : spawned[k].call = calls

\* C11: run_bash_command starts its subprocess only after the human was
\* prompted and answered "y"; after any other answer it starts none and
\* returns "Command execution denied by user.".
C11_BashOnlyAfterYes ==
  /\ \A k \in 1..Len(spawned) :
       spawned[k].tool = "run_bash_command" => StartedAfterYes(spawned[k])
  /\ tpc \in {"bash_spawn", "bash_wait"} => (confirm.given /\ AnsweredYes(confirm.text))
  /\ (tool = "run_bash_command" /\ confirm.given /\ ~AnsweredYes(confirm.text))
       => (/\ tpc = "idle"
           /\ ret = Returned(DeniedMessage, <<>>)
           /\ ~StartedHere)

\* a first invocation answered " Y " has started its subprocess, and a
\* second one answered "yes" was refused without starting one
C11_Witness ==
  /\ calls = 2
  /\ tpc = "idle"
  /\ Len(spawned) = 1
  /\ spawned[1].tool = "run_bash_command"
  /\ spawned[1].call = 1
  /\ spawned[1].confirm = Some(<<" ", "Y", " ">>)
  /\ tool = "run_bash_command"
  /\ confirm = Some(<<"y", "e", "s">>)
  /\ ret = Returned(DeniedMessage, <<>>)

\* C12: when apply_patch_to_file has returned, the file exists and holds
\* exactly new_content.
C12_FileHoldsNewContent ==
  (tpc = "idle" /\ tool = "apply_patch_to_file")
    => (patch_path \in DOMAIN fs_files /\ fs_files[patch_path] = patch)

C15_EverySubprocessConfirmed ==
  \A k \in 1..Len(spawned) : StartedAfterYes(spawned[k])

====
